---- MODULE Spec2Model ----
(***************************************************************************)
(* Model of the SQL-generating scripts of tourmageddon-saas:               *)
(*   generate_update_sql.py     ("date" script: created_at CASE updates)   *)
(*   update_status_from_csv.py  ("status" script: status IN-list updates)  *)
(* Text is modelled as sequences of one-character strings, so that the     *)
(* chained str.replace calls, str.join and the f-string templates are      *)
(* computed character by character.                                        *)
(***************************************************************************)
EXTENDS Integers, Sequences, FiniteSets, TLC

VARIABLES
    script,           \* which script runs: "date" or "status" ("none" under SpecNorm)
    pc,               \* position in the script
    columns,          \* df.columns: sequence of column names
    rows,             \* df rows: sequence of functions column name -> cell
    unique_bookings,  \* date script: de-duplicated (clean_booking_id, creation_date) rows
    status_col,       \* status script: the detected status column, or None
    statuses,         \* status script: df[status_col].unique()
    si,               \* status script: index of the status value being processed
    activity_ids,     \* status script: ids of the rows of the current status value
    i,                \* batch loop index (range(0, n, batch_size))
    out,              \* everything printed that matters: messages and SQL statements
    ident,            \* SpecNorm: an identifier string
    cleaned,          \* SpecNorm: the normalizer applied once
    recleaned         \* SpecNorm: the normalizer applied twice

vars == <<script, pc, columns, rows, unique_bookings, status_col, statuses, si,
          activity_ids, i, out, ident, cleaned, recleaned>>

(***************************************************************************)
(* Bounds of the model.                                                    *)
(***************************************************************************)
MaxRows == 102      \* longest generated input table
MaxSmall == 2       \* longest table tried with the non-standard column layouts
MaxFrags == 3       \* identifiers under SpecNorm are built from at most this many fragments

(***************************************************************************)
(* Program constants.                                                      *)
(***************************************************************************)
batch_size_date == 50
batch_size_status == 100

None == <<>>        \* Python None / empty string: both falsy in `if status_col:`
NaN == "NaN"        \* a missing cell (pandas NaN); read_csv never yields this text as a string

(***************************************************************************)
(* Text helpers.                                                           *)
(***************************************************************************)
Min(a, b) == IF a <= b THEN a ELSE b

DigitChars == <<"0", "1", "2", "3", "4", "5", "6", "7", "8", "9">>

\* str(n) for a non-negative integer.
RECURSIVE Str(_)
Str(n) == IF n < 10 THEN <<DigitChars[n + 1]>>
          ELSE Str(n \div 10) \o <<DigitChars[(n % 10) + 1]>>

\* n formatted with at least w digits, zero padded (strftime's %Y, %m, %d, %H, %M, %S).
RECURSIVE Pad(_, _)
Pad(n, w) == IF w <= 1 THEN Str(n)
             ELSE IF n < 10 THEN [k \in 1..(w - 1) |-> "0"] \o Str(n)
             ELSE Pad(n \div 10, w - 1) \o <<DigitChars[(n % 10) + 1]>>

\* sep.join(items[lo..hi]), by halves to keep the evaluation shallow.
RECURSIVE JoinRange(_, _, _, _)
JoinRange(items, sep, lo, hi) ==
    IF lo > hi THEN <<>>
    ELSE IF lo = hi THEN items[lo]
    ELSE LET mid == (lo + hi) \div 2
         IN  JoinRange(items, sep, lo, mid) \o sep \o JoinRange(items, sep, mid + 1, hi)

StrJoin(sep, items) == JoinRange(items, sep, 1, Len(items))

\* Mutant: the slice stops one item early (seq[a:b-1]).
SliceShort(seq, a, b) == SubSeq(seq, a + 1, Min(b - 1, Len(seq)))

\* Python slice seq[a:b] for 0 <= a <= b (indices clamp at the end of the sequence).
Slice(seq, a, b) == SubSeq(seq, a + 1, Min(b, Len(seq)))

\* `sub in s`
Contains(s, sub) ==
    \E p \in 1..(Len(s) - Len(sub) + 1) : SubSeq(s, p, p + Len(sub) - 1) = sub

UpperChars == <<"A", "B", "C", "D", "E", "F", "G", "H", "I", "J", "K", "L", "M",
                "N", "O", "P", "Q", "R", "S", "T", "U", "V", "W", "X", "Y", "Z">>
LowerChars == <<"a", "b", "c", "d", "e", "f", "g", "h", "i", "j", "k", "l", "m",
                "n", "o", "p", "q", "r", "s", "t", "u", "v", "w", "x", "y", "z">>

LowerChar(c) == IF \E k \in 1..26 : UpperChars[k] = c
                THEN LowerChars[CHOOSE k \in 1..26 : UpperChars[k] = c]
                ELSE c

\* str.lower()
Lower(s) == [k \in 1..Len(s) |-> LowerChar(s[k])]

\* The indices 1..n as a sequence.
Indices(n) == [k \in 1..n |-> k]

(***************************************************************************)
(* Key normalizer (generate_update_sql.py line 8).                         *)
(***************************************************************************)
P_ENRO == <<"E", "N", "R", "O", "-">>
P_TTG == <<"T", "T", "G", "-">>
P_PRO == <<"P", "R", "O", "-">>
P_VIA == <<"V", "I", "A", "-">>
P_HED == <<"H", "E", "D", "-">>
P_VET == <<"V", "E", "T", "-">>

\* The six channel prefixes, in the order the code removes them.
Prefixes == <<P_ENRO, P_TTG, P_PRO, P_VIA, P_HED, P_VET>>

\* s[p..] with every non-overlapping occurrence of old removed, scanning left to right.
RECURSIVE ReplaceFrom(_, _, _)
ReplaceFrom(s, old, p) ==
    IF p > Len(s) THEN <<>>
    ELSE IF p + Len(old) - 1 <= Len(s) /\ SubSeq(s, p, p + Len(old) - 1) = old
         THEN ReplaceFrom(s, old, p + Len(old))
         ELSE <<s[p]>> \o ReplaceFrom(s, old, p + 1)

\* str.replace(old, '')
StrReplace(s, old) == ReplaceFrom(s, old, 1)

\* The chained replace calls of line 8.
clean_booking_id(b) ==
    StrReplace(StrReplace(StrReplace(StrReplace(StrReplace(StrReplace(b,
        P_ENRO), P_TTG), P_PRO), P_VIA), P_HED), P_VET)

(***************************************************************************)
(* Tables: column names, cells and the generated input tables.             *)
(***************************************************************************)
COL_booking_id == <<"b", "o", "o", "k", "i", "n", "g", "_", "i", "d">>
COL_creation_date == <<"c", "r", "e", "a", "t", "i", "o", "n", "_", "d", "a", "t", "e">>
COL_clean_booking_id == <<"c", "l", "e", "a", "n", "_">> \o COL_booking_id
COL_activity_booking_id == <<"a", "c", "t", "i", "v", "i", "t", "y", "_">> \o COL_booking_id
COL_status == <<"s", "t", "a", "t", "u", "s">>
COL_Booking_Status == <<"B", "o", "o", "k", "i", "n", "g", "_", "S", "t", "a", "t", "u", "s">>
COL_status_note == COL_status \o <<"_", "n", "o", "t", "e">>
COL_name == <<"n", "a", "m", "e">>

Range(f) == {f[k] : k \in DOMAIN f}

\* `name in df.columns`
HasColumn(cols, name) == \E k \in 1..Len(cols) : cols[k] = name

\* df[name] as a sequence of cells
Column(rs, name) == [k \in 1..Len(rs) |-> rs[k][name]]

\* Creation dates as Excel datetime cells (pandas Timestamps).
Dates == << [year |-> 2024, month |-> 8, day |-> 1, hour |-> 9, minute |-> 5, second |-> 0],
            [year |-> 2024, month |-> 11, day |-> 23, hour |-> 0, minute |-> 0, second |-> 7],
            [year |-> 2023, month |-> 12, day |-> 31, hour |-> 23, minute |-> 59, second |-> 59] >>

\* Prefix of a generated booking id: one of the six channel prefixes, or none.
PrefixChoices == Prefixes \o << <<>> >>

\* Status cells of the generated CSV tables; the third is an empty cell.
StatusValues == <<"confirmed", "cancelled", NaN>>

\* Column layouts of the Excel file read by the date script.
DateLayoutFull == <<COL_booking_id, COL_creation_date>>
DateLayoutsOther == { <<COL_creation_date>>, <<COL_booking_id>> }

\* Column layouts of the CSV file read by the status script.
StatusLayoutFull == <<COL_activity_booking_id, COL_status>>
StatusLayoutsOther == { <<COL_activity_booking_id, COL_Booking_Status, COL_status_note>>,
                        <<COL_name, COL_activity_booking_id, COL_Booking_Status>>,
                        <<COL_activity_booking_id, COL_name>>,
                        <<COL_status, COL_name>>,
                        <<COL_name>> }

\* Row k of a generated Excel table: keys repeat with period km; the prefix and the
\* date of a repeated key change from one repetition to the next when pstep, dstep = 1.
DateRow(k, layout, km, pstep, dstep) ==
    LET key == ((k - 1) % km) + 1
        c == (k - 1) \div km
    IN  [col \in Range(layout) |->
            IF col = COL_booking_id
            THEN PrefixChoices[((key + pstep * c) % Len(PrefixChoices)) + 1] \o Str(key)
            ELSE Dates[((key + dstep * c) % Len(Dates)) + 1]]

DateTable(n, layout, km, pstep, dstep) == [k \in 1..n |-> DateRow(k, layout, km, pstep, dstep)]

\* Row k of a generated CSV table: ids repeat with period im, status cells cycle
\* through the first sm status values.
StatusRow(k, layout, im, sm) ==
    [col \in Range(layout) |->
        IF col = COL_activity_booking_id THEN ((k - 1) % im) + 1
        ELSE IF col \in {COL_status, COL_Booking_Status} THEN StatusValues[((k - 1) % sm) + 1]
        ELSE "x"]

StatusTable(n, layout, im, sm) == [k \in 1..n |-> StatusRow(k, layout, im, sm)]

KeyPeriods == {2, 60, MaxRows}
IdPeriods == {3, MaxRows}

(***************************************************************************)
(* Printed output.  An item is a message or an SQL statement; in_list is   *)
(* the text of the parenthesised IN list exactly as the f-string builds it.*)
(***************************************************************************)
Item(kind, text, n, status, whens, in_list) ==
    [kind |-> kind, text |-> text, n |-> n, status |-> status,
     whens |-> whens, in_list |-> in_list]

Message(text, n) == Item("print", text, n, "", <<>>, <<>>)

(***************************************************************************)
(* Date script (generate_update_sql.py).                                   *)
(***************************************************************************)
\* strftime('%Y-%m-%d %H:%M:%S')
StrFTime(d) ==
    Pad(d.year, 4) \o <<"-">> \o Pad(d.month, 2) \o <<"-">> \o Pad(d.day, 2) \o <<" ">>
    \o Pad(d.hour, 2) \o <<":">> \o Pad(d.minute, 2) \o <<":">> \o Pad(d.second, 2)

\* DataFrame.drop_duplicates(): keep the first of any rows equal in every column.
DropDuplicates(seq) ==
    LET keep == SelectSeq(Indices(Len(seq)), LAMBDA k : \A j \in 1..(k - 1) : seq[j] # seq[k])
    IN  [m \in 1..Len(keep) |-> seq[keep[m]]]

\* df[['clean_booking_id', 'creation_date']]
BookingProjection(rs) ==
    [k \in 1..Len(rs) |-> [clean_booking_id |-> rs[k][COL_clean_booking_id],
                           creation_date |-> rs[k][COL_creation_date]]]

\* "', '".join(frame['clean_booking_id'].astype(str).tolist()) inside IN ('...')
QuotedInList(frame) ==
    <<"(", "'">>
    \o StrJoin(<<"'", ",", " ", "'">>, [k \in 1..Len(frame) |-> frame[k].clean_booking_id])
    \o <<"'", ")">>

\* Mutant: the IN list of a batch statement is built from all of unique_bookings.
DateUpdateWideIn(batch, no) ==
    Item("update_date", "created_at", no, "",
         [k \in 1..Len(batch) |-> [key |-> batch[k].clean_booking_id,
                                   ts |-> StrFTime(batch[k].creation_date)]],
         QuotedInList(unique_bookings))

\* Mutant: the CASE has no ELSE created_at line.
DateUpdateNoElse(batch, no) ==
    Item("update_date", "", no, "",
         [k \in 1..Len(batch) |-> [key |-> batch[k].clean_booking_id,
                                   ts |-> StrFTime(batch[k].creation_date)]],
         QuotedInList(batch))

\* Lines 28-39: one UPDATE ... CASE ... ELSE created_at END WHERE ... IN (...) statement.
DateUpdate(batch, no) ==
    Item("update_date", "created_at", no, "",
         [k \in 1..Len(batch) |-> [key |-> batch[k].clean_booking_id,
                                   ts |-> StrFTime(batch[k].creation_date)]],
         QuotedInList(batch))

\* Line 8: df['clean_booking_id'] = ...; a KeyError when booking_id is absent.
CleanIds ==
    /\ script = "date" /\ pc = "clean"
    /\ IF HasColumn(columns, COL_booking_id)
       THEN /\ rows' = [k \in 1..Len(rows) |->
                           [col \in (DOMAIN rows[k]) \cup {COL_clean_booking_id} |->
                               IF col = COL_clean_booking_id
                               THEN clean_booking_id(rows[k][COL_booking_id])
                               ELSE rows[k][col]]]
            /\ columns' = Append(columns, COL_clean_booking_id)
            /\ pc' = "dedup"
       ELSE /\ pc' = "error"
            /\ UNCHANGED <<rows, columns>>
    /\ UNCHANGED <<script, unique_bookings, status_col, statuses, si, activity_ids, i, out,
                   ident, cleaned, recleaned>>

\* Lines 11-21: de-duplicate, print the totals; a KeyError when creation_date is absent.
Deduplicate ==
    /\ script = "date" /\ pc = "dedup"
    /\ IF HasColumn(columns, COL_creation_date)
       THEN LET ub == DropDuplicates(BookingProjection(rows))
            IN  /\ unique_bookings' = ub
                /\ out' = out \o << Message("Total unique bookings to update", Len(ub)),
                                    Message("Updating bookings", Len(ub)) >>
                /\ i' = 0
                /\ pc' = "batch"
       ELSE /\ pc' = "error"
            /\ UNCHANGED <<unique_bookings, out, i>>
    /\ UNCHANGED <<script, columns, rows, status_col, statuses, si, activity_ids,
                   ident, cleaned, recleaned>>

\* Lines 25-39: one iteration of `for i in range(0, len(unique_bookings), batch_size)`.
EmitDateBatch ==
    /\ script = "date" /\ pc = "batch"
    /\ i < Len(unique_bookings)
    /\ LET batch == Slice(unique_bookings, i, i + batch_size_date)
       IN  out' = Append(out, DateUpdate(batch, (i \div batch_size_date) + 1))
    /\ i' = i + batch_size_date
    /\ UNCHANGED <<script, pc, columns, rows, unique_bookings, status_col, statuses, si,
                   activity_ids, ident, cleaned, recleaned>>

\* Lines 41-46: the loop is exhausted; print the verification query.
VerifyDate ==
    /\ script = "date" /\ pc = "batch"
    /\ i >= Len(unique_bookings)
    /\ out' = Append(out, Item("verify", "", 0, "", <<>>, QuotedInList(unique_bookings)))
    /\ pc' = "done"
    /\ UNCHANGED <<script, columns, rows, unique_bookings, status_col, statuses, si,
                   activity_ids, i, ident, cleaned, recleaned>>

(***************************************************************************)
(* Status script (update_status_from_csv.py).                              *)
(***************************************************************************)
STATUS == <<"s", "t", "a", "t", "u", "s">>      \* the text looked for in column names

\* Mutant: the column name is compared without lower-casing it.
IsStatusColumnCaseSensitive(col) == Contains(col, STATUS)

\* Line 15: 'status' in col.lower()
IsStatusColumn(col) == Contains(Lower(col), STATUS)

\* Lines 13-17: the first column whose lower-cased name contains 'status', or None.
FindStatusColumn(cols) ==
    IF \E k \in 1..Len(cols) : IsStatusColumn(cols[k])
    THEN cols[CHOOSE k \in 1..Len(cols) :
                  /\ IsStatusColumn(cols[k])
                  /\ \A j \in 1..(k - 1) : ~IsStatusColumn(cols[j])]
    ELSE None

\* Series.unique(): the distinct cells in order of first appearance (NaN counts once).
Unique(cells) ==
    LET keep == SelectSeq(Indices(Len(cells)),
                          LAMBDA k : \A j \in 1..(k - 1) : cells[j] # cells[k])
    IN  [m \in 1..Len(keep) |-> cells[keep[m]]]

\* Element-wise `==` of pandas: a missing cell equals nothing, not even itself.
PdEq(a, b) == a # NaN /\ b # NaN /\ a = b

\* Mutant: the filter compares with plain equality, so missing cells match each other.
ActivityIdsPlainEq(rs, col, status) ==
    LET keep == SelectSeq(Indices(Len(rs)), LAMBDA k : rs[k][col] = status)
    IN  [m \in 1..Len(keep) |-> rs[keep[m]][COL_activity_booking_id]]

\* Lines 36-37: df[df[status_col] == status]['activity_booking_id'].tolist()
ActivityIds(rs, col, status) ==
    LET keep == SelectSeq(Indices(Len(rs)), LAMBDA k : PdEq(rs[k][col], status))
    IN  [m \in 1..Len(keep) |-> rs[keep[m]][COL_activity_booking_id]]

\* ', '.join(str(id) for id in ids) inside IN (...)
BareInList(ids) ==
    <<"(">> \o StrJoin(<<",", " ">>, [k \in 1..Len(ids) |-> Str(ids[k])]) \o <<")">>

\* Lines 48-50: one UPDATE ... SET status = '<status>' WHERE ... IN (...) statement.
StatusUpdate(status, batch) ==
    Item("update_status", "", 0, status, <<>>, BareInList(batch))

\* Lines 13-23: find the status column and report it.
FindStatus ==
    /\ script = "status" /\ pc = "find_status"
    /\ status_col' = FindStatusColumn(columns)
    /\ out' = Append(out, IF status_col' # None
                          THEN Message("Found status column", 0)
                          ELSE Message("Status column not found!", 0))
    /\ pc' = "check_id"
    /\ UNCHANGED <<script, columns, rows, unique_bookings, statuses, si, activity_ids, i,
                   ident, cleaned, recleaned>>

\* Lines 26-35 and 60-61: the activity_booking_id check and the `if status_col:` test.
CheckId ==
    /\ script = "status" /\ pc = "check_id"
    /\ IF HasColumn(columns, COL_activity_booking_id)
       THEN /\ out' = Append(out, Message("SQL Updates for status changes", 0))
            /\ IF status_col # None
               THEN /\ statuses' = Unique(Column(rows, status_col))
                    /\ si' = 1
                    /\ pc' = "status_loop"
               ELSE /\ pc' = "done"
                    /\ UNCHANGED <<statuses, si>>
       ELSE /\ out' = Append(out, Message("activity_booking_id column not found!", 0))
            /\ pc' = "done"
            /\ UNCHANGED <<statuses, si>>
    /\ UNCHANGED <<script, columns, rows, unique_bookings, status_col, activity_ids, i,
                   ident, cleaned, recleaned>>

\* Lines 35-40: the next status value; its ids; the header when there are any.
NextStatus ==
    /\ script = "status" /\ pc = "status_loop"
    /\ si <= Len(statuses)
    /\ LET ids == ActivityIds(rows, status_col, statuses[si])
       IN  /\ activity_ids' = ids
           /\ IF Len(ids) > 0
              THEN /\ out' = Append(out, Item("print", "Update bookings to", Len(ids),
                                              statuses[si], <<>>, <<>>))
                   /\ i' = 0
                   /\ pc' = "status_batch"
                   /\ UNCHANGED si
              ELSE /\ si' = si + 1
                   /\ UNCHANGED <<out, i, pc>>
    /\ UNCHANGED <<script, columns, rows, unique_bookings, status_col, statuses,
                   ident, cleaned, recleaned>>

\* Lines 44-51: one iteration of `for i in range(0, len(activity_ids), batch_size)`.
EmitStatusBatch ==
    /\ script = "status" /\ pc = "status_batch"
    /\ i < Len(activity_ids)
    /\ LET batch == Slice(activity_ids, i, i + batch_size_status)
       IN  out' = Append(out, StatusUpdate(statuses[si], batch))
    /\ i' = i + batch_size_status
    /\ UNCHANGED <<script, pc, columns, rows, unique_bookings, status_col, statuses, si,
                   activity_ids, ident, cleaned, recleaned>>

\* The batch loop of one status value is exhausted: on to the next value.
EndStatusBatches ==
    /\ script = "status" /\ pc = "status_batch"
    /\ i >= Len(activity_ids)
    /\ si' = si + 1
    /\ pc' = "status_loop"
    /\ UNCHANGED <<script, columns, rows, unique_bookings, status_col, statuses,
                   activity_ids, i, out, ident, cleaned, recleaned>>

\* Lines 53-59: the status loop is exhausted; print the verification query.
VerifyStatus ==
    /\ script = "status" /\ pc = "status_loop"
    /\ si > Len(statuses)
    /\ out' = Append(out, Item("verify", "", 0, "", <<>>,
                               BareInList(Column(rows, COL_activity_booking_id))))
    /\ pc' = "done"
    /\ UNCHANGED <<script, columns, rows, unique_bookings, status_col, statuses, si,
                   activity_ids, i, ident, cleaned, recleaned>>

(***************************************************************************)
(* The scripts' runs.                                                      *)
(***************************************************************************)
InitDate ==
    /\ script = "date" /\ pc = "clean"
    /\ \/ /\ columns = DateLayoutFull
          /\ \E n \in 0..MaxRows, km \in KeyPeriods, pstep \in 0..1, dstep \in 0..1 :
                rows = DateTable(n, columns, km, pstep, dstep)
       \/ /\ columns \in DateLayoutsOther
          /\ \E n \in 0..MaxSmall : rows = DateTable(n, columns, MaxRows, 0, 0)

InitStatus ==
    /\ script = "status" /\ pc = "find_status"
    /\ \/ /\ columns = StatusLayoutFull
          /\ \E n \in 0..MaxRows, im \in IdPeriods, sm \in 1..Len(StatusValues) :
                rows = StatusTable(n, columns, im, sm)
       \/ /\ columns \in StatusLayoutsOther
          /\ \E n \in 0..MaxSmall, sm \in 1..Len(StatusValues) :
                rows = StatusTable(n, columns, MaxRows, sm)

Init ==
    /\ InitDate \/ InitStatus
    /\ unique_bookings = <<>> /\ status_col = None /\ statuses = <<>> /\ si = 0
    /\ activity_ids = <<>> /\ i = 0 /\ out = <<>>
    /\ ident = <<>> /\ cleaned = <<>> /\ recleaned = <<>>

Next ==
    \/ CleanIds \/ Deduplicate \/ EmitDateBatch \/ VerifyDate
    \/ FindStatus \/ CheckId \/ NextStatus \/ EmitStatusBatch \/ EndStatusBatches
    \/ VerifyStatus

Spec == Init /\ [][Next]_vars

(***************************************************************************)
(* The key normalizer on its own, over identifiers built from fragments.   *)
(***************************************************************************)
Fragments == Range(Prefixes) \cup
             { <<"E", "N">>, <<"R", "O", "-">>, <<"T">>, <<"T", "G", "-">>,
               <<"V">>, <<"E", "T", "-">>, <<"A">>, <<"1">>, <<"-">> }

\* The concatenations of at most k fragments.
RECURSIVE FragStrings(_)
FragStrings(k) ==
    IF k = 0 THEN { <<>> }
    ELSE LET shorter == FragStrings(k - 1)
         IN  shorter \cup { s \o f : s \in shorter, f \in Fragments }

InitNorm ==
    /\ script = "none" /\ pc = "norm"
    /\ ident \in FragStrings(MaxFrags)
    /\ cleaned = <<>> /\ recleaned = <<>>
    /\ columns = <<>> /\ rows = <<>>
    /\ unique_bookings = <<>> /\ status_col = None /\ statuses = <<>> /\ si = 0
    /\ activity_ids = <<>> /\ i = 0 /\ out = <<>>

\* The normalizer applied to the identifier.
NormOnce ==
    /\ pc = "norm"
    /\ cleaned' = clean_booking_id(ident)
    /\ pc' = "norm_again"
    /\ UNCHANGED <<script, columns, rows, unique_bookings, status_col, statuses, si,
                   activity_ids, i, out, ident, recleaned>>

\* The normalizer applied to its own result.
NormTwice ==
    /\ pc = "norm_again"
    /\ recleaned' = clean_booking_id(cleaned)
    /\ pc' = "normed"
    /\ UNCHANGED <<script, columns, rows, unique_bookings, status_col, statuses, si,
                   activity_ids, i, out, ident, cleaned>>

NextNorm == NormOnce \/ NormTwice

SpecNorm == InitNorm /\ [][NextNorm]_vars

(***************************************************************************)
(* Reading the emitted SQL back.                                           *)
(***************************************************************************)
\* The string literals of an IN ('a', 'b') list, in order: the text between
\* each opening quote and its closing quote.
QuotedKeys(text) ==
    LET q == SelectSeq(Indices(Len(text)), LAMBDA k : text[k] = "'")
    IN  [m \in 1..(Len(q) \div 2) |-> SubSeq(text, q[2 * m - 1] + 1, q[2 * m] - 1)]

\* The items of an unquoted IN (1, 2) list, in order; an empty list has none.
BareKeys(text) ==
    LET c == SelectSeq(Indices(Len(text)), LAMBDA k : text[k] = ",")
    IN  IF Len(text) <= 2 THEN <<>>
        ELSE [m \in 1..(Len(c) + 1) |->
                 SubSeq(text, IF m = 1 THEN 2 ELSE c[m - 1] + 2,
                              IF m = Len(c) + 1 THEN Len(text) - 1 ELSE c[m] - 1)]

\* The keys an item's IN list names, in order.
InKeys(item) == IF script = "date" THEN QuotedKeys(item.in_list) ELSE BareKeys(item.in_list)

ItemsOfKind(kind) == SelectSeq(out, LAMBDA it : it.kind = kind)
DateUpdates == ItemsOfKind("update_date")
StatusUpdates == ItemsOfKind("update_status")
StatusUpdatesOf(v) == SelectSeq(out, LAMBDA it : it.kind = "update_status" /\ it.status = v)
Verifications == ItemsOfKind("verify")
Printed(text) == \E k \in 1..Len(out) : out[k].kind = "print" /\ out[k].text = text

RECURSIVE Concat(_)
Concat(seqs) == IF seqs = <<>> THEN <<>> ELSE Head(seqs) \o Concat(Tail(seqs))

CeilDiv(n, d) == (n + d - 1) \div d

WhenKeys(item) == [k \in 1..Len(item.whens) |-> item.whens[k].key]
CleanIdsOf(frame) == [k \in 1..Len(frame) |-> frame[k].clean_booking_id]
StrAll(ids) == [k \in 1..Len(ids) |-> Str(ids[k])]

DateDone == script = "date" /\ pc = "done"
StatusDone == script = "status" /\ pc = "done"

\* The batches cover `items` (as texts): the right number of statements, each of
\* 1..size keys, all but the last full, and their concatenation is `items`.
BatchesCover(lists, items, size) ==
    /\ Len(lists) = CeilDiv(Len(items), size)
    /\ \A b \in 1..Len(lists) :
          /\ Len(lists[b]) >= 1 /\ Len(lists[b]) <= size
          /\ b < Len(lists) => Len(lists[b]) = size
    /\ Concat(lists) = items

(***************************************************************************)
(* Claims.                                                                 *)
(***************************************************************************)
\* C1: the batch loop yields ceil(n / batch_size) batches, each a contiguous slice
\* of 1..batch_size items, all but the last of exactly batch_size items, whose
\* concatenation in emission order is the input sequence (50 in the date script
\* over unique_bookings, 100 in the status script over each status value's ids).
C1_BatchesPartitionInput ==
    /\ DateDone =>
          BatchesCover([b \in 1..Len(DateUpdates) |-> WhenKeys(DateUpdates[b])],
                       CleanIdsOf(unique_bookings), batch_size_date)
    /\ (StatusDone /\ Verifications # <<>>) =>
          \A v \in Range(statuses) :
             BatchesCover([b \in 1..Len(StatusUpdatesOf(v)) |-> BareKeys(StatusUpdatesOf(v)[b].in_list)],
                          StrAll(ActivityIds(rows, status_col, v)), batch_size_status)

\* C1 witness: a finished date run of three batches, the last one short.
C1_Witness ==
    /\ DateDone
    /\ Len(DateUpdates) = 3
    /\ Len(DateUpdates[3].whens) < batch_size_date
    /\ Len(DateUpdates[1].whens) = batch_size_date

\* C1 witness of the status script: two statements for one status value, 100 ids then fewer.
C1_WitnessStatus ==
    /\ StatusDone
    /\ Len(StatusUpdates) = 2
    /\ StatusUpdates[1].status = StatusUpdates[2].status
    /\ Len(BareKeys(StatusUpdates[1].in_list)) = batch_size_status

\* Whether the text s begins with the text p.
StartsWith(s, p) == Len(s) >= Len(p) /\ SubSeq(s, 1, Len(p)) = p

StartsWithAPrefix(s) == \E k \in 1..Len(Prefixes) : StartsWith(s, Prefixes[k])
ContainsAPrefix(s) == \E k \in 1..Len(Prefixes) : Contains(s, Prefixes[k])
HyphenCount(s) == Cardinality({k \in 1..Len(s) : s[k] = "-"})

\* C2: the normalizer is idempotent, N(N(x)) = N(x) for every identifier x.
C2_Idempotent == pc = "normed" => recleaned = cleaned

\* What does hold of the normalizer: N(N(x)) = N(x) exactly when N(x) contains none
\* of the six prefixes (all matching prefixes are exhausted), which is the case for
\* every identifier with at most one '-'.
NormalizerStableOnceExhausted ==
    pc = "normed" =>
        /\ (recleaned = cleaned) <=> ~ContainsAPrefix(cleaned)
        /\ HyphenCount(ident) <= 1 => recleaned = cleaned

\* A prefixed identifier whose prefix was removed and that is stable afterwards.
NormalizerStableCase ==
    /\ pc = "normed"
    /\ StartsWithAPrefix(ident)
    /\ cleaned # ident
    /\ cleaned # <<>>
    /\ recleaned = cleaned

\* C3: an identifier that does not begin with any of the six prefixes is returned
\* unchanged, and only a leading prefix is ever removed (the result is the
\* identifier itself or the identifier without its leading prefix).
C3_OnlyLeadingPrefixRemoved ==
    pc \in {"norm_again", "normed"} =>
        /\ ~StartsWithAPrefix(ident) => cleaned = ident
        /\ \/ cleaned = ident
           \/ \E k \in 1..Len(Prefixes) :
                 /\ StartsWith(ident, Prefixes[k])
                 /\ cleaned = SubSeq(ident, Len(Prefixes[k]) + 1, Len(ident))

\* The ids, as texts and in row order, of the rows whose status cell is v.
IdsOfRowsWithStatus(v) ==
    LET keep == SelectSeq(Indices(Len(rows)), LAMBDA k : rows[k][status_col] = v)
    IN  [m \in 1..Len(keep) |-> Str(rows[keep[m]][COL_activity_booking_id])]

StatusRan == StatusDone /\ status_col # None /\ HasColumn(columns, COL_activity_booking_id)

\* The rows of status value v are listed, once per row and in row order, by the
\* UPDATE statements that set status = 'v', and by no others.
ListedUnderOwnStatus(v) ==
    Concat([b \in 1..Len(StatusUpdatesOf(v)) |-> BareKeys(StatusUpdatesOf(v)[b].in_list)])
        = IdsOfRowsWithStatus(v)

\* C4 (as claimed): for every element v of df[status_col].unique(), every row whose
\* status is v has its id listed, once per row, in exactly one UPDATE statement,
\* which sets status = 'v'; no id is listed under another row's status.
C4_EveryStatusValueListed ==
    StatusRan =>
        /\ \A v \in Range(statuses) : ListedUnderOwnStatus(v)
        /\ \A k \in 1..Len(StatusUpdates) : StatusUpdates[k].status \in Range(statuses)

\* C4 (amended): the same for every non-missing status value; the rows whose status
\* cell is missing (NaN) are listed by no UPDATE statement, and no statement is
\* emitted for the missing value.
C4_EveryPresentStatusValueListed ==
    StatusRan =>
        /\ \A v \in Range(statuses) \ {NaN} : ListedUnderOwnStatus(v)
        /\ \A k \in 1..Len(StatusUpdates) : StatusUpdates[k].status \in Range(statuses) \ {NaN}

\* C4 witness: a finished run over rows of two status values and some missing cells.
C4_Witness ==
    /\ StatusRan
    /\ Len(statuses) = 3 /\ NaN \in Range(statuses)
    /\ Len(StatusUpdates) = 2
    /\ StatusUpdates[1].status # StatusUpdates[2].status
    /\ Len(BareKeys(StatusUpdates[2].in_list)) > 1

\* The keys named by the UPDATE statements of the run.
UpdateKeySet ==
    LET ups == IF script = "date" THEN DateUpdates ELSE StatusUpdates
    IN  UNION {Range(InKeys(ups[k])) : k \in 1..Len(ups)}

\* C5: in both scripts the key set of the verification SELECT's IN list equals the
\* union of the key sets of the IN lists of all UPDATE statements of the run.
C5_VerificationCoversUpdateKeys ==
    (pc = "done" /\ Verifications # <<>>) =>
        Range(InKeys(Verifications[1])) = UpdateKeySet

(***************************************************************************)
(* Applying an emitted date-update statement to a row of activity_bookings.*)
(***************************************************************************)
DbIds == {1, 2, 3, 60, 61, MaxRows + 1}
OldCreatedAt == StrFTime([year |-> 2020, month |-> 2, day |-> 29,
                          hour |-> 12, minute |-> 0, second |-> 0])
SqlNull == <<"N", "U", "L", "L">>

\* created_at of the row with the given booking_id after the statement ran.
ApplyUpdate(u, id, created_at) ==
    LET t == Str(id)
        hits == SelectSeq(u.whens, LAMBDA w : w.key = t)
    IN  IF t \in Range(QuotedKeys(u.in_list))
        THEN IF hits # <<>> THEN hits[1].ts
             ELSE IF u.text = "created_at" THEN created_at ELSE SqlNull
        ELSE created_at

RECURSIVE ApplyAll(_, _, _)
ApplyAll(us, id, created_at) ==
    IF us = <<>> THEN created_at
    ELSE ApplyAll(Tail(us), id, ApplyUpdate(Head(us), id, created_at))

\* C6: an emitted date-update statement, and the emitted statements applied in
\* order, leave created_at unchanged for every table row whose booking_id is not a
\* key of the statement(s); in each statement the WHEN keys and the IN-list keys
\* are the same set and the CASE ends in ELSE created_at.
C6_OtherRowsUnchanged ==
    script = "date" =>
        /\ \A k \in 1..Len(DateUpdates) :
              LET u == DateUpdates[k]
              IN  /\ Range(WhenKeys(u)) = Range(QuotedKeys(u.in_list))
                  /\ u.text = "created_at"
                  /\ \A id \in DbIds :
                        Str(id) \notin Range(WhenKeys(u))
                            => ApplyUpdate(u, id, OldCreatedAt) = OldCreatedAt
        /\ \A id \in DbIds :
              (\A k \in 1..Len(DateUpdates) : Str(id) \notin Range(WhenKeys(DateUpdates[k])))
                  => ApplyAll(DateUpdates, id, OldCreatedAt) = OldCreatedAt

\* C6 witness: statements that change one table row and leave another, unnamed, alone.
C6_Witness ==
    /\ DateDone
    /\ Len(DateUpdates) = 2
    /\ ApplyAll(DateUpdates, 61, OldCreatedAt) # OldCreatedAt
    /\ \A k \in 1..Len(DateUpdates) : Str(MaxRows + 1) \notin Range(WhenKeys(DateUpdates[k]))
    /\ ApplyAll(DateUpdates, MaxRows + 1, OldCreatedAt) = OldCreatedAt

\* C7: each batch gives exactly one UPDATE statement with one WHEN clause per row of
\* the batch, in row order, pairing the row's cleaned id with its creation date,
\* and an IN list naming the same cleaned ids in the same order.
C7_OneCasePerBatch ==
    DateDone =>
        /\ Len(DateUpdates) = CeilDiv(Len(unique_bookings), batch_size_date)
        /\ \A b \in 1..Len(DateUpdates) :
              LET first == (b - 1) * batch_size_date
                  size == Min(batch_size_date, Len(unique_bookings) - first)
                  u == DateUpdates[b]
              IN  /\ u.n = b
                  /\ u.whens = [k \in 1..size |->
                                   [key |-> unique_bookings[first + k].clean_booking_id,
                                    ts |-> StrFTime(unique_bookings[first + k].creation_date)]]
                  /\ QuotedKeys(u.in_list) =
                         [k \in 1..size |-> unique_bookings[first + k].clean_booking_id]

\* C7 witness: two input rows with distinct ids give one CASE block of two WHEN clauses.
C7_Witness ==
    /\ DateDone
    /\ Len(rows) = 2
    /\ Len(DateUpdates) = 1
    /\ Len(DateUpdates[1].whens) = 2
    /\ DateUpdates[1].whens[1].key # DateUpdates[1].whens[2].key
    /\ DateUpdates[1].whens[1].ts # DateUpdates[1].whens[2].ts

ExpectedColumnsPresent ==
    IF script = "date"
    THEN HasColumn(columns, COL_booking_id) /\ HasColumn(columns, COL_creation_date)
    ELSE HasColumn(columns, COL_activity_booking_id)
         /\ \E k \in 1..Len(columns) : Contains(Lower(columns[k]), STATUS)

\* C8: on a table of zero rows with the expected columns, each script emits no
\* UPDATE statement and exactly one verification query, whose IN list holds no key.
C8_EmptyInputEmptyKeyList ==
    (pc = "done" /\ Len(rows) = 0 /\ ExpectedColumnsPresent) =>
        /\ DateUpdates = <<>> /\ StatusUpdates = <<>>
        /\ Len(Verifications) = 1
        /\ InKeys(Verifications[1]) = <<>>

NoStatusLikeColumn == \A k \in 1..Len(columns) : ~Contains(Lower(columns[k]), STATUS)
NoIdColumn == ~HasColumn(columns, COL_activity_booking_id)

\* C9: in the status script a missing column is reported by a printed message and
\* never raises: "Status column not found!" exactly when no column name contains
\* 'status' (case-insensitively), "activity_booking_id column not found!" exactly
\* when that column is absent; in either case the run goes on to normal completion
\* and emits neither an UPDATE statement nor a verification query.
C9_MissingColumnReported ==
    script = "status" =>
        /\ pc # "error"
        /\ (pc # "done" /\ (NoStatusLikeColumn \/ NoIdColumn)) => ENABLED Next
        /\ pc = "done" =>
              /\ Printed("Status column not found!") <=> NoStatusLikeColumn
              /\ Printed("activity_booking_id column not found!") <=> NoIdColumn
              /\ (NoStatusLikeColumn \/ NoIdColumn) =>
                    StatusUpdates = <<>> /\ Verifications = <<>>

\* C9 witness: a finished run on a non-empty table that has ids but no status column.
C9_Witness ==
    /\ StatusDone
    /\ Len(rows) > 0
    /\ NoStatusLikeColumn /\ ~NoIdColumn
    /\ Printed("Status column not found!")

\* C10: after de-duplication every cleaned booking id occurs in at most one row of
\* unique_bookings (so at most one WHEN clause and one IN-list entry per key), and
\* the printed total is the number of distinct cleaned booking ids.
C10_OneRowPerBooking ==
    (script = "date" /\ pc \in {"batch", "done"}) =>
        /\ \A j, k \in 1..Len(unique_bookings) :
              j # k => unique_bookings[j].clean_booking_id # unique_bookings[k].clean_booking_id
        /\ \A k \in 1..Len(out) :
              (out[k].kind = "print" /\ out[k].text = "Total unique bookings to update")
                  => out[k].n = Cardinality(Range(CleanIdsOf(unique_bookings)))

====
